---- MODULE Spec2Model ----
(***************************************************************************)
(* nc-news-api: the request handlers of the articles controller, the       *)
(* error-handling middleware chain and the data-access functions they      *)
(* call, over a small relational store of articles, comments and users.    *)
(*                                                                         *)
(* A request occupies a slot.  Its handler runs its synchronous part, the  *)
(* store executes the issued query as one atomic step, and the promise     *)
(* callback (.then / .catch) runs afterwards; requests in different slots  *)
(* interleave at these points.                                             *)
(***************************************************************************)
EXTENDS Integers, Sequences, FiniteSets, TLC

\* ------------------------------------------------------------------ bounds
NumSlots == 2
MaxRequests == 2

\* ------------------------------------------------------- program constants
\* largest value of the store's integer type
MaxInt == 2147483647

\* ------------------------------------------------------------ input tokens
\* A path parameter is text: a sequence of one-character strings.
Digits == {"0", "1", "2", "3", "4", "5", "6", "7", "8", "9"}

DigitVal(c) ==
  CASE c = "0" -> 0 [] c = "1" -> 1 [] c = "2" -> 2 [] c = "3" -> 3
    [] c = "4" -> 4 [] c = "5" -> 5 [] c = "6" -> 6 [] c = "7" -> 7
    [] c = "8" -> 8 [] c = "9" -> 9 [] OTHER -> 0

TokZero == <<"0">>
TokOne == <<"1">>
TokTwo == <<"2">>
TokAbsent == <<"5", "6", "6", "7">>
TokWord == <<"p", "i", "n", "e", "a", "p", "p", "l", "e">>
TokFraction == <<"1", ".", "5">>
TokHuge == <<"9", "3", "3", "2", "8", "7", "9", "2", "8", "3">>

IdTokens == {TokZero, TokOne, TokTwo, TokAbsent, TokWord, TokFraction, TokHuge}

AllDigits(s) == Len(s) > 0 /\ \A i \in 1..Len(s) : s[i] \in Digits

\* JavaScript isNaN on a string: true when Number(string) is NaN.  The
\* tokens are over digits, "-", "." and letters that form no numeric
\* literal, so Number() accepts exactly [-]digits[.digits], [-].digits and
\* the empty string.
isNaN(s) ==
  LET body == IF Len(s) > 0 /\ s[1] = "-" THEN Tail(s) ELSE s
      dots == {i \in 1..Len(body) : body[i] = "."}
      okChars == \A i \in 1..Len(body) : body[i] \in Digits \cup {"."}
  IN  IF Len(s) = 0 THEN FALSE
      ELSE ~(/\ okChars
             /\ Cardinality(dots) <= 1
             /\ \E i \in 1..Len(body) : body[i] \in Digits)

\* The store's text-to-integer input conversion: [-]digits, range checked
\* while accumulating.  code "" is success, "22P02" invalid text
\* representation, "22003" numeric value out of range.
RECURSIVE DigitsToInt(_, _)
DigitsToInt(s, acc) ==
  IF Len(s) = 0 THEN [code |-> "", val |-> acc]
  ELSE LET d == DigitVal(Head(s))
       IN  IF acc > (MaxInt - d) \div 10
             THEN [code |-> "22003", val |-> 0]
             ELSE DigitsToInt(Tail(s), acc * 10 + d)

int4in(s) ==
  LET neg == Len(s) > 0 /\ s[1] = "-"
      body == IF neg THEN Tail(s) ELSE s
  IN  IF ~AllDigits(body) THEN [code |-> "22P02", val |-> 0]
      ELSE LET p == DigitsToInt(body, 0)
           IN  IF p.code # "" THEN p
               ELSE [code |-> "", val |-> IF neg THEN 0 - p.val ELSE p.val]

\* The store's integer-to-text output conversion (decimal digits).
DigitChar(d) ==
  CASE d = 0 -> "0" [] d = 1 -> "1" [] d = 2 -> "2" [] d = 3 -> "3"
    [] d = 4 -> "4" [] d = 5 -> "5" [] d = 6 -> "6" [] d = 7 -> "7"
    [] d = 8 -> "8" [] OTHER -> "9"

RECURSIVE NatToText(_)
NatToText(n) ==
  IF n < 10 THEN <<DigitChar(n)>>
  ELSE Append(NatToText(n \div 10), DigitChar(n % 10))

int4out(n) == IF n < 0 THEN <<"-">> \o NatToText(0 - n) ELSE NatToText(n)

\* -------------------------------------------------------------- JS values
\* the JavaScript value undefined, for a text field and for a numeric token
Undefined == "undefined"
UndefinedTok == <<"undefined">>

\* ------------------------------------------------------ failures, results
\* A failure object.  status 0, msg <<>> and code "" stand for an absent
\* property (all are falsy, as undefined is).  A message is a sequence of
\* text fragments.
NoMsg == <<>>
Shaped(status, msg) ==
  [status |-> status, msg |-> msg, code |-> "", detail |-> NoMsg]
StoreError(code, detail) ==
  [status |-> 0, msg |-> NoMsg, code |-> code, detail |-> detail]
NoErr == [status |-> 0, msg |-> NoMsg, code |-> "", detail |-> NoMsg]

FkDetail(column, key, table) ==
  <<"Key (", column, ")=(">> \o key
    \o <<") is not present in table \"", table, "\".">>

MsgInvalidInput == <<"Invalid input">>
MsgArticleMissing == <<"Article ID does not exist">>
MsgCommentMissing == <<"Comment does not exist">>
MsgMalformed == <<"Malformed body/missing required fields">>
MsgInvalidSort == <<"Invalid sort by query">>
MsgOutOfRange == <<"Out of range for type integer - choose a smaller number">>
MsgIdNotNumber == <<"Article ID invalid - must be a number">>

\* a settled promise
Resolve(rows) == [ok |-> TRUE, rows |-> rows, err |-> NoErr]
Reject(err) == [ok |-> FALSE, rows |-> <<>>, err |-> err]
Unsettled == [ok |-> FALSE, rows |-> <<>>, err |-> NoErr]

\* ------------------------------------------------------------- seed data
Users == {"butter_bridge", "rogersop"}

InitArticles ==
  [a \in {1, 2} |->
     IF a = 1
       THEN [article_id |-> 1, title |-> "Living in the shadow", topic |-> "mitch",
             author |-> "butter_bridge", created_at |-> 20, votes |-> 100]
       ELSE [article_id |-> 2, title |-> "UNCOVERED: catspiracy", topic |-> "cats",
             author |-> "rogersop", created_at |-> 10, votes |-> 0]]

InitComments ==
  {[comment_id |-> 1, article_id |-> 1, author |-> "butter_bridge",
    body |-> "Oh, I've got compassion", votes |-> 16, created_at |-> 1]}

\* ------------------------------------------------------------------ state
VARIABLES
  articles,        \* the articles table: article_id -> row
  comments,        \* the comments table: a set of rows
  comment_id_seq,  \* the next value of the comments' serial key
  reqs,            \* request slot -> the request being handled in it
  served           \* requests accepted so far

db == <<articles, comments, comment_id_seq>>
vars == <<articles, comments, comment_id_seq, reqs, served>>

Slots == 1..NumSlots

\* ------------------------------------------------- the data-access layer
comment_count(a) == Cardinality({c \in comments : c.article_id = a})

ArticleRow(a) ==
  [article_id |-> a, title |-> articles[a].title, topic |-> articles[a].topic,
   author |-> articles[a].author, created_at |-> articles[a].created_at,
   votes |-> articles[a].votes, comment_count |-> comment_count(a)]

\* the value a row is ordered by under a sort column
ColumnRank(row, column) ==
  CASE column = "article_id" -> row.article_id
    [] column = "votes" -> row.votes
    [] column = "comment_count" -> row.comment_count
    [] column = "created_at" -> row.created_at
    [] column = "author" -> IF row.author = "butter_bridge" THEN 1 ELSE 2
    [] column = "title" -> IF row.title = "Living in the shadow" THEN 1 ELSE 2
    [] OTHER -> IF row.topic = "cats" THEN 1 ELSE 2

\* rows of S as a sequence ordered by a column, descending or ascending
RECURSIVE OrderBy(_, _, _)
OrderBy(S, column, descending) ==
  IF S = {} THEN <<>>
  ELSE LET first == CHOOSE x \in S :
                      \A y \in S :
                        IF descending
                          THEN ColumnRank(x, column) >= ColumnRank(y, column)
                          ELSE ColumnRank(x, column) <= ColumnRank(y, column)
       IN  <<first>> \o OrderBy(S \ {first}, column, descending)

\* what a data-access call leaves behind when the store has run its query
Outcome(result) ==
  [result |-> result, articles |-> articles, comments |-> comments,
   comment_id_seq |-> comment_id_seq]

fetchArticlesById(article_id) ==
  LET p == int4in(article_id)
  IN  IF p.code # "" THEN {Outcome(Reject(StoreError(p.code, NoMsg)))}
      ELSE IF p.val \notin DOMAIN articles
        THEN {Outcome(Reject(Shaped(404, MsgArticleMissing)))}
        ELSE {Outcome(Resolve(<<ArticleRow(p.val)>>))}

fetchCommentsByArticleId(article_id) ==
  LET p == int4in(article_id)
  IN  IF p.code # "" THEN {Outcome(Reject(StoreError(p.code, NoMsg)))}
      ELSE {Outcome(Resolve(
              OrderBy({c \in comments : c.article_id = p.val}, "created_at", TRUE)))}

\* the body check of insertCommentByArticleId, made before any query
insertCommentRejects(body, username) ==
  body = Undefined \/ username = Undefined

\* A failed foreign-key check still consumes a value of the serial key; a
\* parameter that is not an integer fails before the row is formed.
insertCommentByArticleId(article_id, body, username) ==
  LET p == int4in(article_id)
      fk == (IF p.val \notin DOMAIN articles
               THEN {FkDetail("article_id", int4out(p.val), "articles")} ELSE {})
            \cup
            (IF username \notin Users
               THEN {FkDetail("author", <<username>>, "users")} ELSE {})
      row == [comment_id |-> comment_id_seq, article_id |-> p.val,
              author |-> username, body |-> body, votes |-> 0,
              created_at |-> comment_id_seq]
  IN  IF p.code # "" THEN {Outcome(Reject(StoreError(p.code, NoMsg)))}
      ELSE IF fk # {}
        THEN {[Outcome(Reject(StoreError("23503", d)))
                 EXCEPT !.comment_id_seq = comment_id_seq + 1] : d \in fk}
        ELSE {[Outcome(Resolve(<<row>>))
                 EXCEPT !.comments = comments \cup {row},
                        !.comment_id_seq = comment_id_seq + 1]}

\* the body check of updateArticleById, made before any query
updateArticleRejects(inc_votes) == inc_votes = UndefinedTok

\* one UPDATE ... SET votes = votes + delta ... RETURNING statement
updateArticleById(article_id, inc_votes) ==
  LET p == int4in(article_id)
      d == int4in(inc_votes)
      bad == {x.code : x \in {p, d}} \ {""}
      sum == articles[p.val].votes + d.val
      row == [articles[p.val] EXCEPT !.votes = sum]
  IN  IF bad # {} THEN {Outcome(Reject(StoreError(c, NoMsg))) : c \in bad}
      ELSE IF p.val \notin DOMAIN articles
        THEN {Outcome(Reject(Shaped(404, MsgArticleMissing)))}
        ELSE IF sum > MaxInt \/ sum < 0 - MaxInt - 1
          THEN {Outcome(Reject(StoreError("22003", NoMsg)))}
          ELSE {[Outcome(Resolve(<<row>>))
                   EXCEPT !.articles = [articles EXCEPT ![p.val] = row]]}

deletingCommentFromDb(comment_id) ==
  LET p == int4in(comment_id)
      hit == {c \in comments : c.comment_id = p.val}
  IN  IF p.code # "" THEN {Outcome(Reject(StoreError(p.code, NoMsg)))}
      ELSE IF hit = {}
        THEN {Outcome(Reject(Shaped(404, MsgCommentMissing)))}
        ELSE {[Outcome(Resolve(<<>>)) EXCEPT !.comments = comments \ hit]}

\* the sort columns a client may name
SortColumns ==
  {"author", "title", "article_id", "topic", "created_at", "votes",
   "comment_count"}

\* the allow-list check of fetchAllArticles, made before any query
fetchAllArticlesRejects(sortBy) ==
  sortBy # Undefined /\ sortBy \notin SortColumns

\* The direction of a list whose request names none, as the suite fixes it:
\* a list with no sort_by is newest first (toBeSortedBy created_at,
\* descending: true), a list with sort_by=author and no order is expected in
\* ascending order (toBeSortedBy author).
DefaultDirection(sortBy) == IF sortBy = Undefined THEN "desc" ELSE "asc"

fetchAllArticles(topic, sortBy, sortOrder) ==
  LET column == IF sortBy = Undefined THEN "created_at" ELSE sortBy
      direction == IF sortOrder = Undefined THEN DefaultDirection(sortBy)
                   ELSE sortOrder
      picked == {ArticleRow(a) : a \in {x \in DOMAIN articles :
                                   topic = Undefined \/ articles[x].topic = topic}}
  IN  IF direction \notin {"asc", "desc", "ASC", "DESC"}
        THEN {Outcome(Reject(StoreError("42601", NoMsg)))}
        ELSE {Outcome(Resolve(
                OrderBy(picked, column, direction \in {"desc", "DESC"})))}

\* ------------------------------------------------------------- responses
\* by: the stage that wrote the response ("handler", "custom", "psql",
\* "fallback")
Response(status, msg, kind, rows, by) ==
  [status |-> status, msg |-> msg, kind |-> kind, rows |-> rows, by |-> by]

\* ------------------------------------------------- error.controllers.js
\* Each stage yields the responses it sends and whether it calls next(err).
\* mutant: the failure's message read under the wrong property name
customErrorMiddlewareWrongKey(err) == [sent |-> <<>>, next |-> TRUE]

\* mutant: the stage answers every shaped failure with one fixed status
customErrorMiddlewareStatus400(err) ==
  IF err.status # 0 /\ err.msg # NoMsg
    THEN [sent |-> <<Response(400, err.msg, "error", <<>>, "custom")>>,
          next |-> FALSE]
    ELSE [sent |-> <<>>, next |-> TRUE]

customErrorMiddleware(err) ==
  IF err.status # 0 /\ err.msg # NoMsg
    THEN [sent |-> <<Response(err.status, err.msg, "error", <<>>, "custom")>>,
          next |-> FALSE]
    ELSE [sent |-> <<>>, next |-> TRUE]

\* mutant: the stage compares with the code of another store failure
handlePsqlErrorsMiddlewareOtherCode(err) ==
  IF err.code = "23502"
    THEN [sent |-> <<Response(400, MsgInvalidInput, "error", <<>>, "psql")>>,
          next |-> FALSE]
    ELSE [sent |-> <<>>, next |-> TRUE]

handlePsqlErrorsMiddleware(err) ==
  IF err.code = "22P02"
    THEN [sent |-> <<Response(400, MsgInvalidInput, "error", <<>>, "psql")>>,
          next |-> FALSE]
    ELSE [sent |-> <<>>, next |-> TRUE]

\* the framework's final handler: a failure no stage answered
finalhandler(err) ==
  [sent |-> <<Response(IF err.status \in 400..599 THEN err.status ELSE 500,
                       <<"Internal Server Error">>, "html", <<>>, "fallback")>>,
   next |-> FALSE]

\* mutant: the two stages registered the other way round
StagesSwapped == <<"psql", "custom">>

\* app.js: the error middleware in registration order
Stages == <<"custom", "psql">>

StageRun(stage, err) ==
  IF stage = "custom" THEN customErrorMiddleware(err)
  ELSE handlePsqlErrorsMiddleware(err)

\* A failure enters the chain at stage i and is handed from stage to stage,
\* unchanged, until one answers; past the last stage it reaches the
\* framework's final handler.  trail: the stages that saw it; unhandled:
\* what the final handler received.
RECURSIVE Walk(_, _)
Walk(err, i) ==
  IF i > Len(Stages)
    THEN [sent |-> finalhandler(err).sent, trail |-> <<"fallback">>,
          unhandled |-> <<err>>]
    ELSE LET here == StageRun(Stages[i], err)
             rest == Walk(err, i + 1)
         IN  IF ~here.next
               THEN [sent |-> here.sent, trail |-> <<Stages[i]>>,
                     unhandled |-> <<>>]
               ELSE [rest EXCEPT !.trail = <<Stages[i]>> \o @]

ErrorChain(err) == Walk(err, 1).sent

\* --------------------------------------------------------------- requests
IdleReq ==
  [kind |-> "none", pc |-> "idle", id |-> <<>>, topic |-> Undefined,
   sort_by |-> Undefined, order |-> Undefined, username |-> Undefined,
   body |-> Undefined, inc_votes |-> UndefinedTok,
   queries |-> <<>>, result |-> Unsettled, sent |-> <<>>, forwarded |-> <<>>,
   trail |-> <<>>, unhandled |-> <<>>]

IsStage(name) == name # "fallback"

\* The handler passes err to next.  The router keeps its place in the
\* middleware stack for the request: a second call of next goes on after
\* the last stage the first one reached.
next(req, err) ==
  LET walk == Walk(err, 1 + Len(SelectSeq(req.trail, IsStage)))
  IN  [req EXCEPT !.forwarded = Append(@, err),
                  !.sent = @ \o walk.sent,
                  !.trail = @ \o walk.trail,
                  !.unhandled = @ \o walk.unhandled]

\* the handler writes a success response
send(req, status, kind, rows) ==
  [req EXCEPT !.sent = Append(@, Response(status, NoMsg, kind, rows, "handler"))]

\* the checks a data-access function makes before it sends any query:
\* the failure it rejects with, or NoErr
Rejection(fn, args) ==
  CASE fn = "fetchAllArticles" ->
         IF fetchAllArticlesRejects(args[2])
           THEN Shaped(400, MsgInvalidSort) ELSE NoErr
    [] fn = "insertCommentByArticleId" ->
         IF insertCommentRejects(args[2], args[3])
           THEN Shaped(400, MsgMalformed) ELSE NoErr
    [] fn = "updateArticleById" ->
         IF updateArticleRejects(args[2])
           THEN Shaped(400, MsgMalformed) ELSE NoErr
    [] OTHER -> NoErr

\* the handler calls a data-access function: the promise is rejected by the
\* function's own check, or its query goes out to the store
Call(req, fn, args) ==
  IF Rejection(fn, args) # NoErr
    THEN [req EXCEPT !.result = Reject(Rejection(fn, args)), !.pc = "settled"]
    ELSE [req EXCEPT !.queries = Append(@, [fn |-> fn, args |-> args]),
                     !.pc = "pending"]

Finish(req) == [req EXCEPT !.pc = "done"]

\* --------------------------------------------- articles.controllers.js
\* mutant: the topic is read from a query key the request never carries
getAllArticlesCallNoTopic(req) ==
  Call(req, "fetchAllArticles", <<Undefined, req.sort_by, req.order>>)

getAllArticlesCall(req) ==
  Call(req, "fetchAllArticles", <<req.topic, req.sort_by, req.order>>)

\* mutant: the promise chain has no .catch, a failure is never forwarded
getAllArticlesSettledNoCatch(req) ==
  Finish(IF req.result.ok THEN send(req, 200, "articles", req.result.rows)
         ELSE req)

getAllArticlesSettled(req) ==
  Finish(IF req.result.ok THEN send(req, 200, "articles", req.result.rows)
         ELSE next(req, req.result.err))

getArticlesByIdCall(req) == Call(req, "fetchArticlesById", <<req.id>>)

\* mutant: the response is built from a name the callback does not bind
getArticlesByIdSettledNoRows(req) ==
  Finish(IF req.result.ok THEN send(req, 200, "article", <<>>)
         ELSE next(req, req.result.err))

getArticlesByIdSettled(req) ==
  Finish(IF req.result.ok THEN send(req, 200, "article", req.result.rows)
         ELSE next(req, req.result.err))

\* mutant: the comments are looked up without the article lookup before
getCommentsByArticleIdCallNoGate(req) ==
  Call(req, "fetchCommentsByArticleId", <<req.id>>)

getCommentsByArticleIdCall(req) == Call(req, "fetchArticlesById", <<req.id>>)

\* the outer .then issues the second lookup; the inner .then answers
getCommentsByArticleIdSettled(req) ==
  IF ~req.result.ok THEN Finish(next(req, req.result.err))
  ELSE IF req.queries[Len(req.queries)].fn = "fetchArticlesById"
    THEN Call(req, "fetchCommentsByArticleId", <<req.id>>)
    ELSE Finish(send(req, 200, "comments", req.result.rows))

\* mutant: body and username passed in each other's place
postCommentByArticleIdCallSwapped(req) ==
  Call(req, "insertCommentByArticleId", <<req.id, req.username, req.body>>)

postCommentByArticleIdCall(req) ==
  Call(req, "insertCommentByArticleId", <<req.id, req.body, req.username>>)

\* mutant: the promise chain has no .catch, a failure is never forwarded
postCommentByArticleIdSettledNoCatch(req) ==
  Finish(IF req.result.ok THEN send(req, 201, "comment", req.result.rows)
         ELSE req)

postCommentByArticleIdSettled(req) ==
  Finish(IF req.result.ok THEN send(req, 201, "comment", req.result.rows)
         ELSE next(req, req.result.err))

\* mutant: the arguments of updateArticleById in the wrong order
patchArticleByIdCallSwapped(req) ==
  Call(req, "updateArticleById", <<req.inc_votes, req.id>>)

patchArticleByIdCall(req) ==
  Call(req, "updateArticleById", <<req.id, req.inc_votes>>)

patchArticleByIdSettled(req) ==
  Finish(IF req.result.ok THEN send(req, 200, "article", req.result.rows)
         ELSE next(req, req.result.err))

deleteCommentByIdCall(req) == Call(req, "deletingCommentFromDb", <<req.id>>)

\* mutant: the deletion answered like a read, 200 with an empty object
deleteCommentByIdSettledAs200(req) ==
  Finish(IF req.result.ok THEN send(req, 200, "comment", <<>>)
         ELSE next(req, req.result.err))

deleteCommentByIdSettled(req) ==
  Finish(IF req.result.ok THEN send(req, 204, "none", <<>>)
         ELSE next(req, req.result.err))

\* the second getArticlesById: an isNaN check that passes its failure to
\* next and then goes on to the lookup all the same
getArticlesByIdCheckedCall(req) ==
  Call(IF isNaN(req.id) THEN next(req, Shaped(400, MsgIdNotNumber)) ELSE req,
       "fetchArticlesById", <<req.id>>)

getArticlesByIdCheckedSettled(req) ==
  Finish(IF req.result.ok THEN send(req, 200, "article", req.result.rows)
         ELSE next(req, req.result.err))

\* ----------------------------------------------------------- the workload
Topics == {Undefined, "cats", "paper"}
SortBys == {Undefined, "votes", "comment_count", "author", "article_img_url"}
Orders == {Undefined, "asc", "DESC", "sideways"}
Usernames == {Undefined, "butter_bridge", "5"}
Bodies == {Undefined, "I am 100% sure"}
TokPlusOne == <<"1">>
TokMinusHundred == <<"-", "1", "0", "0">>
IncVotes == {UndefinedTok, TokPlusOne, TokMinusHundred, TokWord}

Busy(req) == req.pc \in {"pending", "settled"}

\* Requests overlap in time only within this mix of well-formed requests
\* on article 1 and comment 1; any other request is handled alone.
InMix(req) ==
  /\ req.id = TokOne
  /\ \/ req.kind = "patchArticleById" /\ req.inc_votes \in {TokPlusOne, TokMinusHundred}
     \/ req.kind = "postCommentByArticleId" /\ req.username = "butter_bridge"
          /\ req.body # Undefined
     \/ req.kind \in {"deleteCommentById", "getCommentsByArticleId",
                      "getArticlesById"}

\* a request is taken into the lowest free slot
Accept(r, req) ==
  /\ served < MaxRequests
  /\ ~Busy(reqs[r])
  /\ \A o \in Slots : o < r => Busy(reqs[o])
  /\ \A o \in Slots : Busy(reqs[o]) => InMix(req) /\ InMix(reqs[o])
  /\ served' = served + 1
  /\ UNCHANGED db

\* --------------------------------------------------------------- actions
getAllArticles(r) ==
  \E topic \in Topics, sort_by \in SortBys, order \in Orders :
    LET req == [IdleReq EXCEPT !.kind = "getAllArticles", !.topic = topic,
                               !.sort_by = sort_by, !.order = order]
    IN  /\ Accept(r, req)
        /\ reqs' = [reqs EXCEPT ![r] = getAllArticlesCall(req)]

getArticlesById(r) ==
  \E id \in IdTokens :
    LET req == [IdleReq EXCEPT !.kind = "getArticlesById", !.id = id]
    IN  /\ Accept(r, req)
        /\ reqs' = [reqs EXCEPT ![r] = getArticlesByIdCall(req)]

getArticlesByIdChecked(r) ==
  \E id \in IdTokens :
    LET req == [IdleReq EXCEPT !.kind = "getArticlesByIdChecked", !.id = id]
    IN  /\ Accept(r, req)
        /\ reqs' = [reqs EXCEPT ![r] = getArticlesByIdCheckedCall(req)]

getCommentsByArticleId(r) ==
  \E id \in IdTokens :
    LET req == [IdleReq EXCEPT !.kind = "getCommentsByArticleId", !.id = id]
    IN  /\ Accept(r, req)
        /\ reqs' = [reqs EXCEPT ![r] = getCommentsByArticleIdCall(req)]

postCommentByArticleId(r) ==
  \E id \in IdTokens, username \in Usernames, body \in Bodies :
    LET req == [IdleReq EXCEPT !.kind = "postCommentByArticleId", !.id = id,
                               !.username = username, !.body = body]
    IN  /\ Accept(r, req)
        /\ reqs' = [reqs EXCEPT ![r] = postCommentByArticleIdCall(req)]

patchArticleById(r) ==
  \E id \in IdTokens, inc_votes \in IncVotes :
    LET req == [IdleReq EXCEPT !.kind = "patchArticleById", !.id = id,
                               !.inc_votes = inc_votes]
    IN  /\ Accept(r, req)
        /\ reqs' = [reqs EXCEPT ![r] = patchArticleByIdCall(req)]

deleteCommentById(r) ==
  \E id \in IdTokens :
    LET req == [IdleReq EXCEPT !.kind = "deleteCommentById", !.id = id]
    IN  /\ Accept(r, req)
        /\ reqs' = [reqs EXCEPT ![r] = deleteCommentByIdCall(req)]

\* the query a request has out
Pending(req) == req.queries[Len(req.queries)]

QueryOutcomes(q) ==
  CASE q.fn = "fetchAllArticles" ->
         fetchAllArticles(q.args[1], q.args[2], q.args[3])
    [] q.fn = "fetchArticlesById" -> fetchArticlesById(q.args[1])
    [] q.fn = "fetchCommentsByArticleId" -> fetchCommentsByArticleId(q.args[1])
    [] q.fn = "insertCommentByArticleId" ->
         insertCommentByArticleId(q.args[1], q.args[2], q.args[3])
    [] q.fn = "updateArticleById" -> updateArticleById(q.args[1], q.args[2])
    [] OTHER -> deletingCommentFromDb(q.args[1])

\* the store runs a request's query, in one step, and settles its promise
StoreRun(r) ==
  /\ reqs[r].pc = "pending"
  /\ \E out \in QueryOutcomes(Pending(reqs[r])) :
       /\ articles' = out.articles
       /\ comments' = out.comments
       /\ comment_id_seq' = out.comment_id_seq
       /\ reqs' = [reqs EXCEPT ![r] = [@ EXCEPT !.result = out.result,
                                               !.pc = "settled"]]
  /\ UNCHANGED served

Settled(req) ==
  CASE req.kind = "getAllArticles" -> getAllArticlesSettled(req)
    [] req.kind = "getArticlesById" -> getArticlesByIdSettled(req)
    [] req.kind = "getArticlesByIdChecked" -> getArticlesByIdCheckedSettled(req)
    [] req.kind = "getCommentsByArticleId" -> getCommentsByArticleIdSettled(req)
    [] req.kind = "postCommentByArticleId" -> postCommentByArticleIdSettled(req)
    [] req.kind = "patchArticleById" -> patchArticleByIdSettled(req)
    [] OTHER -> deleteCommentByIdSettled(req)

\* the .then / .catch callback of a settled promise runs
PromiseSettled(r) ==
  /\ reqs[r].pc = "settled"
  /\ reqs' = [reqs EXCEPT ![r] = Settled(@)]
  /\ UNCHANGED <<db, served>>

Init ==
  /\ articles = InitArticles
  /\ comments = InitComments
  /\ comment_id_seq = 2
  /\ reqs = [r \in Slots |-> IdleReq]
  /\ served = 0

Next ==
  \E r \in Slots :
    \/ getAllArticles(r)
    \/ getArticlesById(r)
    \/ getArticlesByIdChecked(r)
    \/ getCommentsByArticleId(r)
    \/ postCommentByArticleId(r)
    \/ patchArticleById(r)
    \/ deleteCommentById(r)
    \/ StoreRun(r)
    \/ PromiseSettled(r)

Spec == Init /\ [][Next]_vars

\* ================================================================ claims
tables == <<articles, comments>>

Done(req) == req.pc = "done"

\* what the client receives: the first response written
Answer(req) == req.sent[1]

Answered(req, status, msg) ==
  /\ Len(req.sent) >= 1
  /\ Answer(req).status = status
  /\ Answer(req).msg = msg

PathKinds ==
  {"getArticlesById", "getArticlesByIdChecked", "getCommentsByArticleId",
   "postCommentByArticleId", "patchArticleById", "deleteCommentById"}

\* a token with a character that is no digit, sign or decimal point
NonNumeric(tok) == \E i \in 1..Len(tok) : tok[i] \notin Digits \cup {"-", "."}

\* a string of digits within the store's integer range
InRange(tok) == AllDigits(tok) /\ int4in(tok).code = ""

\* the slot whose request takes the step
Steps(r) == reqs'[r] # reqs[r]

\* the request carries the body fields its endpoint requires
BodyComplete(req) ==
  /\ req.kind = "postCommentByArticleId"
       => req.body # Undefined /\ req.username # Undefined
  /\ req.kind = "patchArticleById" => req.inc_votes # UndefinedTok

\* C1: on every endpoint with a path identifier, a non-numeric identifier
\* (in a request that carries its required body fields) is answered 400
\* {msg: "Invalid input"} and the request writes nothing to the articles or
\* the comments.
C1_NonNumericIdInvalidInput ==
  /\ [](\A r \in Slots :
          (Done(reqs[r]) /\ reqs[r].kind \in PathKinds /\ BodyComplete(reqs[r])
             /\ NonNumeric(reqs[r].id))
            => Answered(reqs[r], 400, MsgInvalidInput))
  /\ [][\A r \in Slots :
          (Steps(r) /\ reqs'[r].kind \in PathKinds /\ NonNumeric(reqs'[r].id))
            => UNCHANGED tables]_vars

\* C2: a numeric identifier (0 included) within the integer range that
\* matches no row is answered 404 "Article ID does not exist" by GET
\* /articles/{id}, GET /articles/{id}/comments and PATCH /articles/{id} (sent
\* with an integer inc_votes) and 404 "Comment does not exist" by DELETE
\* /comments/{id}, and the request leaves the articles and comments as they
\* were.
NoArticle(req) ==
  InRange(req.id) /\ int4in(req.id).val \notin DOMAIN articles

NoComment(req) ==
  InRange(req.id) /\ int4in(req.id).val \notin {c.comment_id : c \in comments}

LooksUpArticle(req) ==
  \/ req.kind \in {"getArticlesById", "getArticlesByIdChecked",
                   "getCommentsByArticleId"}
  \/ req.kind = "patchArticleById" /\ int4in(req.inc_votes).code = ""

C2_AbsentRowIs404 ==
  /\ [](\A r \in Slots :
          /\ (Done(reqs[r]) /\ LooksUpArticle(reqs[r]) /\ NoArticle(reqs[r]))
               => Answered(reqs[r], 404, MsgArticleMissing)
          /\ (Done(reqs[r]) /\ reqs[r].kind = "deleteCommentById"
                /\ reqs[r].result.err.status = 404)
               => Answered(reqs[r], 404, MsgCommentMissing))
  /\ [][\A r \in Slots :
          /\ (Steps(r) /\ reqs[r].pc = "pending"
                /\ reqs[r].kind = "deleteCommentById" /\ NoComment(reqs[r]))
               => /\ UNCHANGED tables
                  /\ reqs'[r].result = Reject(Shaped(404, MsgCommentMissing))
          /\ (Steps(r) /\ LooksUpArticle(reqs'[r]) /\ NoArticle(reqs'[r]))
               => UNCHANGED tables]_vars

C2_Witness ==
  \E r \in Slots :
    /\ Done(reqs[r]) /\ reqs[r].kind = "patchArticleById"
    /\ reqs[r].id = TokZero /\ reqs[r].inc_votes = TokPlusOne
    /\ reqs[r].sent = <<Response(404, MsgArticleMissing, "error", <<>>, "custom")>>
    /\ tables = <<InitArticles, InitComments>>

\* C3: GET /articles with a requested sort_by outside the allow-list is
\* answered 400 "Invalid sort by query" whatever topic and order are, and
\* no article list is sent.
C3_AllowList ==
  {"author", "title", "article_id", "topic", "created_at", "votes",
   "comment_count"}

C3_BadSortIs400 ==
  \A r \in Slots :
    (Done(reqs[r]) /\ reqs[r].kind = "getAllArticles"
       /\ reqs[r].sort_by # Undefined /\ reqs[r].sort_by \notin C3_AllowList)
      => reqs[r].sent =
           <<Response(400, MsgInvalidSort, "error", <<>>, "custom")>>

C3_Witness ==
  \E r \in Slots :
    /\ Done(reqs[r]) /\ reqs[r].kind = "getAllArticles"
    /\ reqs[r].sort_by = "article_img_url"
    /\ reqs[r].order = "sideways" /\ reqs[r].topic = "cats"
    /\ Answered(reqs[r], 400, MsgInvalidSort)

\* C4: in GET /articles/{id}/comments the comment lookup goes out only
\* after the article lookup for the same id has succeeded; a failed article
\* lookup is the failure forwarded, with no comment lookup (404 "Article ID
\* does not exist" for an absent article); an existing article without
\* comments is answered 200 with an empty sequence.
C4_Lookups(req) == [i \in 1..Len(req.queries) |-> req.queries[i].fn]

C4_CommentsAfterArticle ==
  /\ [](\A r \in Slots : reqs[r].kind = "getCommentsByArticleId" =>
          /\ C4_Lookups(reqs[r]) \in
               {<<>>, <<"fetchArticlesById">>,
                <<"fetchArticlesById", "fetchCommentsByArticleId">>}
          /\ \A i \in 1..Len(reqs[r].queries) :
               reqs[r].queries[i].args = <<reqs[r].id>>
          /\ (Done(reqs[r]) /\ Len(reqs[r].queries) = 1) =>
               /\ reqs[r].forwarded = <<reqs[r].result.err>>
               /\ NoArticle(reqs[r]) => Answered(reqs[r], 404, MsgArticleMissing)
          /\ (Done(reqs[r]) /\ Len(reqs[r].queries) = 2 /\ reqs[r].result.ok) =>
               reqs[r].sent = <<Response(200, NoMsg, "comments",
                                         reqs[r].result.rows, "handler")>>)
  /\ [][\A r \in Slots : (Steps(r) /\ reqs[r].kind = "getCommentsByArticleId") =>
          \* the second lookup goes out from the first one's success
          /\ Len(reqs'[r].queries) = 2 /\ Len(reqs[r].queries) = 1 =>
               reqs[r].pc = "settled" /\ reqs[r].result.ok
          \* a failed article lookup ends the request
          /\ (reqs[r].pc = "settled" /\ Len(reqs[r].queries) = 1
                /\ ~reqs[r].result.ok) =>
               Done(reqs'[r]) /\ reqs'[r].queries = reqs[r].queries
          \* the article lookup fails for an absent article
          /\ (reqs[r].pc = "pending" /\ Len(reqs[r].queries) = 1
                /\ NoArticle(reqs[r])) =>
               reqs'[r].result = Reject(Shaped(404, MsgArticleMissing))
          \* an article without comments yields the empty sequence
          /\ (reqs[r].pc = "pending" /\ Len(reqs[r].queries) = 2
                /\ comment_count(int4in(reqs[r].id).val) = 0) =>
               reqs'[r].result = Resolve(<<>>)]_vars

C4_Witness ==
  \E r \in Slots :
    /\ Done(reqs[r]) /\ reqs[r].kind = "getCommentsByArticleId"
    /\ reqs[r].id = TokTwo
    /\ C4_Lookups(reqs[r]) = <<"fetchArticlesById", "fetchCommentsByArticleId">>
    /\ reqs[r].sent = <<Response(200, NoMsg, "comments", <<>>, "handler")>>

\* C5: vote increments with integer deltas against one existing article,
\* in any order and interleaving, leave its votes at the initial votes plus
\* the sum of all deltas, and each is answered 200 with the article as it
\* is right after its own update.
C5_Delta(r) == int4in(reqs[r].inc_votes).val

RECURSIVE C5_Sum(_)
C5_Sum(S) ==
  IF S = {} THEN 0
  ELSE LET x == CHOOSE y \in S : TRUE IN C5_Delta(x) + C5_Sum(S \ {x})

\* the increments the store has run against article a
C5_Applied(a) ==
  {r \in Slots : /\ reqs[r].kind = "patchArticleById"
                 /\ reqs[r].pc \in {"settled", "done"}
                 /\ reqs[r].result.ok
                 /\ int4in(reqs[r].id).val = a}

\* every request accepted so far is still in its slot
C5_AllInSlots == Cardinality({r \in Slots : reqs[r].pc # "idle"}) = served

C5_Increments(r) ==
  /\ reqs[r].kind = "patchArticleById" /\ reqs[r].pc = "pending"
  /\ InRange(reqs[r].id) /\ int4in(reqs[r].id).val \in DOMAIN articles
  /\ int4in(reqs[r].inc_votes).code = ""

C5_NoLostUpdate ==
  /\ [](C5_AllInSlots =>
          \A a \in DOMAIN articles :
            articles[a].votes =
              InitArticles[a].votes + C5_Sum(C5_Applied(a)))
  /\ [](\A r \in Slots :
          (Done(reqs[r]) /\ reqs[r].kind = "patchArticleById"
             /\ reqs[r].result.ok)
            => reqs[r].sent = <<Response(200, NoMsg, "article",
                                         reqs[r].result.rows, "handler")>>)
  /\ [][\A r \in Slots :
          /\ (Steps(r) /\ C5_Increments(r)) =>
               LET a == int4in(reqs[r].id).val
               IN  /\ articles' = [articles EXCEPT ![a].votes = @ + C5_Delta(r)]
                   /\ reqs'[r].result = Resolve(<<articles'[a]>>)
                   /\ comments' = comments
          /\ (Steps(r) /\ ~C5_Increments(r)) => articles' = articles]_vars

C5_Witness ==
  /\ NumSlots >= 2
  /\ Done(reqs[1]) /\ Done(reqs[2])
  /\ reqs[1].kind = "patchArticleById" /\ reqs[2].kind = "patchArticleById"
  /\ reqs[1].inc_votes = TokPlusOne /\ reqs[2].inc_votes = TokMinusHundred
  /\ Answered(reqs[1], 200, NoMsg) /\ Answered(reqs[2], 200, NoMsg)
  /\ reqs[1].sent[1].rows[1].votes = 1
  /\ reqs[2].sent[1].rows[1].votes = 0
  /\ articles[1].votes = 1

\* C6: DELETE /comments/{id} of a stored comment is answered 204 without a
\* body and removes exactly that row, leaving every other comment and the
\* articles as they were; the id never comes back, and a DELETE of an id
\* that is not stored is answered 404 "Comment does not exist" and changes
\* nothing.
C6_Ids == {c.comment_id : c \in comments}

C6_Deletes(r) ==
  /\ reqs[r].kind = "deleteCommentById" /\ reqs[r].pc = "pending"
  /\ InRange(reqs[r].id)

C6_HardDelete ==
  /\ [](\A r \in Slots : (Done(reqs[r]) /\ reqs[r].kind = "deleteCommentById") =>
          /\ reqs[r].result.ok =>
               reqs[r].sent = <<Response(204, NoMsg, "none", <<>>, "handler")>>
          /\ reqs[r].result.err = Shaped(404, MsgCommentMissing) =>
               reqs[r].sent = <<Response(404, MsgCommentMissing, "error",
                                         <<>>, "custom")>>)
  /\ [](\A c \in comments : c.comment_id < comment_id_seq)
  /\ [][/\ \A r \in Slots : (Steps(r) /\ C6_Deletes(r)) =>
             LET n == int4in(reqs[r].id).val
             IN  IF n \in C6_Ids
                   THEN /\ \E c \in comments :
                             c.comment_id = n /\ comments' = comments \ {c}
                        /\ Cardinality(comments') = Cardinality(comments) - 1
                        /\ articles' = articles
                        /\ reqs'[r].result = Resolve(<<>>)
                   ELSE /\ UNCHANGED tables
                        /\ reqs'[r].result = Reject(Shaped(404, MsgCommentMissing))
        \* an id that has been given out is never given to a new row
        /\ \A c \in comments' \ comments : c.comment_id >= comment_id_seq]_vars

C6_Witness ==
  \E r \in Slots :
    /\ served = 2 /\ comments = {}
    /\ Done(reqs[r]) /\ reqs[r].kind = "deleteCommentById"
    /\ reqs[r].id = TokOne
    /\ reqs[r].sent = <<Response(404, MsgCommentMissing, "error", <<>>, "custom")>>

\* C7: a mutation without a required body field (POST comment without
\* username or without body, PATCH without inc_votes) is answered 400
\* "Malformed body/missing required fields", whatever its path identifier,
\* and leaves the comments, the articles and their votes as they were.
C7_Incomplete(req) ==
  \/ req.kind = "postCommentByArticleId"
       /\ (req.body = Undefined \/ req.username = Undefined)
  \/ req.kind = "patchArticleById" /\ req.inc_votes = UndefinedTok

C7_MissingFieldIs400 ==
  /\ [](\A r \in Slots : (Done(reqs[r]) /\ C7_Incomplete(reqs[r])) =>
          reqs[r].sent = <<Response(400, MsgMalformed, "error", <<>>, "custom")>>)
  /\ [][\A r \in Slots : (Steps(r) /\ C7_Incomplete(reqs'[r])) =>
          UNCHANGED db]_vars

C7_Witness ==
  \E r \in Slots :
    /\ Done(reqs[r]) /\ reqs[r].kind = "postCommentByArticleId"
    /\ reqs[r].id = TokOne /\ reqs[r].username = "butter_bridge"
    /\ reqs[r].body = Undefined
    /\ Answered(reqs[r], 400, MsgMalformed)
    /\ comments = InitComments

\* C8: POST /articles/{A}/comments with {username: u, body: b}, article A
\* and user u existing, adds exactly one comment row with votes 0,
\* article_id A, author u, body b and an id no stored comment has, changes
\* nothing else, and is answered 201 with that row.
C8_Inserts(r) ==
  /\ reqs[r].kind = "postCommentByArticleId" /\ reqs[r].pc = "pending"
  /\ InRange(reqs[r].id) /\ int4in(reqs[r].id).val \in DOMAIN articles
  /\ reqs[r].username \in Users /\ reqs[r].body # Undefined

C8_CommentCreated ==
  /\ [](\A r \in Slots :
          (Done(reqs[r]) /\ reqs[r].kind = "postCommentByArticleId"
             /\ reqs[r].result.ok)
            => reqs[r].sent = <<Response(201, NoMsg, "comment",
                                         reqs[r].result.rows, "handler")>>)
  /\ [][\A r \in Slots : (Steps(r) /\ C8_Inserts(r)) =>
          \E row \in comments' :
            /\ row \notin comments
            /\ comments' = comments \cup {row}
            /\ articles' = articles
            /\ row.comment_id \notin C6_Ids
            /\ row.votes = 0
            /\ row.article_id = int4in(reqs[r].id).val
            /\ row.author = reqs[r].username
            /\ row.body = reqs[r].body
            /\ reqs'[r].result = Resolve(<<row>>)]_vars

C8_Witness ==
  \E r \in Slots :
    /\ Done(reqs[r]) /\ reqs[r].kind = "postCommentByArticleId"
    /\ reqs[r].id = TokTwo
    /\ Answered(reqs[r], 201, NoMsg)
    /\ reqs[r].sent[1].rows =
         <<[comment_id |-> 2, article_id |-> 2, author |-> "butter_bridge",
            body |-> "I am 100% sure", votes |-> 0, created_at |-> 2]>>
    /\ Cardinality(comments) = 2

\* C9: POST /articles/{id}/comments with both fields present and an
\* article id or a username that does not exist is answered 404 with the
\* store's foreign-key message naming the violated column and table, no
\* comment is inserted, and every stored comment references an existing
\* article and an existing user.
C9_Violations(req) ==
  (IF int4in(req.id).val \notin DOMAIN articles
     THEN {FkDetail("article_id", int4out(int4in(req.id).val), "articles")}
     ELSE {})
  \cup
  (IF req.username \notin Users
     THEN {FkDetail("author", <<req.username>>, "users")} ELSE {})

C9_ForeignKeyIs404 ==
  /\ \A r \in Slots :
       (Done(reqs[r]) /\ reqs[r].kind = "postCommentByArticleId"
          /\ BodyComplete(reqs[r]) /\ InRange(reqs[r].id)
          /\ C9_Violations(reqs[r]) # {})
         => /\ Len(reqs[r].sent) = 1
            /\ Answer(reqs[r]).status = 404
            /\ Answer(reqs[r]).msg \in C9_Violations(reqs[r])
  /\ \A c \in comments : c.article_id \in DOMAIN articles /\ c.author \in Users

\* C10: GET and POST /articles/{id}/comments with a numeric article id
\* beyond the store's integer range are answered 400 "Out of range for type
\* integer - choose a smaller number", and no comment is inserted.
C10_OutOfRangeIs400 ==
  /\ \A r \in Slots :
       (Done(reqs[r])
          /\ reqs[r].kind \in {"getCommentsByArticleId", "postCommentByArticleId"}
          /\ BodyComplete(reqs[r])
          /\ AllDigits(reqs[r].id) /\ ~InRange(reqs[r].id))
         => Len(reqs[r].sent) = 1 /\ Answered(reqs[r], 400, MsgOutOfRange)
  /\ \A c \in comments : c.article_id <= MaxInt

\* ------------------------------------------------- the chain on its own
\* Failure objects a promise may reject with: with or without a status, a
\* msg and a store code, in every combination.
FailureStatuses == {0, 400, 404}
FailureMsgs == {NoMsg, MsgArticleMissing, MsgInvalidSort}
FailureCodes == {"", "22P02", "22003", "23503"}
Failures ==
  {[status |-> st, msg |-> m, code |-> c, detail |-> NoMsg] :
     st \in FailureStatuses, m \in FailureMsgs, c \in FailureCodes}

HandlerKinds ==
  {"getAllArticles", "getArticlesById", "getArticlesByIdChecked",
   "getCommentsByArticleId", "postCommentByArticleId", "patchArticleById",
   "deleteCommentById"}

\* one request of any handler whose promise has just rejected with any of
\* the failures
ChainInit ==
  /\ articles = InitArticles
  /\ comments = InitComments
  /\ comment_id_seq = 2
  /\ served = 1
  /\ \E kind \in HandlerKinds, err \in Failures :
       reqs = [r \in Slots |->
                 IF r = 1
                   THEN [IdleReq EXCEPT !.kind = kind, !.pc = "settled",
                                        !.result = Reject(err)]
                   ELSE IdleReq]

\* the handler's .catch passes the failure to the chain
ChainNext == \E r \in Slots : PromiseSettled(r)

ChainSpec == ChainInit /\ [][ChainNext]_vars

\* ------------------------------------------------------------------ C11
C11_Listed(req) ==
  /\ req.kind = "getAllArticles"
  /\ Done(req)
  /\ req.sort_by \in SortColumns \cup {Undefined}
  /\ req.order \in {Undefined, "asc", "desc", "ASC", "DESC"}

C11_Column(req) ==
  IF req.sort_by \in SortColumns THEN req.sort_by ELSE "created_at"

C11_Descending(req) ==
  IF req.order = Undefined THEN TRUE ELSE req.order \in {"desc", "DESC"}

C11_InOrder(rows, column, descending) ==
  \A i, j \in 1..Len(rows) :
    i < j =>
      IF descending
        THEN ColumnRank(rows[i], column) >= ColumnRank(rows[j], column)
        ELSE ColumnRank(rows[i], column) <= ColumnRank(rows[j], column)

\* C11: a list request with an allowed or absent sort_by and an asc/desc
\* (any case) or absent order is answered 200 with the articles ordered by
\* sort_by, or created_at when absent, in the direction of order, or
\* descending when absent.
C11_OrderedAsResolved ==
  \A r \in Slots :
    C11_Listed(reqs[r]) =>
      /\ Len(reqs[r].sent) = 1
      /\ Answer(reqs[r]).status = 200
      /\ Answer(reqs[r]).kind = "articles"
      /\ C11_InOrder(Answer(reqs[r]).rows, C11_Column(reqs[r]),
                     C11_Descending(reqs[r]))

\* ------------------------------------------------------------------ C12
C12_Matching(req) ==
  {a \in DOMAIN articles :
     req.topic = Undefined \/ articles[a].topic = req.topic}

C12_Ids(rows) == {rows[i].article_id : i \in 1..Len(rows)}

\* C12: a list request is answered 200 with exactly the stored articles whose
\* topic equals the topic parameter, each once, also when there are none;
\* without a topic parameter with all stored articles.
C12_TopicFilter ==
  \A r \in Slots :
    C11_Listed(reqs[r]) =>
      /\ Len(reqs[r].sent) = 1
      /\ Answer(reqs[r]).status = 200
      /\ Answer(reqs[r]).kind = "articles"
      /\ C12_Ids(Answer(reqs[r]).rows) = C12_Matching(reqs[r])
      /\ Len(Answer(reqs[r]).rows) = Cardinality(C12_Matching(reqs[r]))

\* a topic no article has is answered 200 with an empty list
C12_Witness ==
  \E r \in Slots :
    /\ C11_Listed(reqs[r])
    /\ reqs[r].topic = "paper"
    /\ reqs[r].sent = <<Response(200, NoMsg, "articles", <<>>, "handler")>>

\* ------------------------------------------------------------ C13 - C15
\* the failure has both a status and a msg
IsShaped(err) == err.status # 0 /\ err.msg # NoMsg

\* a finished request that forwarded one failure
Failed(req) == Done(req) /\ Len(req.forwarded) = 1

\* C13: a forwarded failure with a status and a msg is answered by the first
\* stage with that status and that msg, and reaches no later stage.
C13_ShapedAnsweredAsIs ==
  \A r \in Slots :
    Failed(reqs[r]) /\ IsShaped(reqs[r].forwarded[1]) =>
      /\ reqs[r].sent = <<Response(reqs[r].forwarded[1].status,
                                   reqs[r].forwarded[1].msg,
                                   "error", <<>>, "custom")>>
      /\ reqs[r].trail = <<"custom">>
      /\ reqs[r].unhandled = <<>>

C13_Witness ==
  \E r \in Slots :
    /\ Failed(reqs[r])
    /\ reqs[r].forwarded[1] = Shaped(404, MsgArticleMissing)
    /\ Answered(reqs[r], 404, MsgArticleMissing)
    /\ reqs[r].trail = <<"custom">>

\* C14: a forwarded failure that is not shaped and has code 22P02 is
\* answered by the second stage with 400 "Invalid input", whatever handler
\* forwarded it, and does not reach the fallback.
C14_InvalidTextIs400 ==
  \A r \in Slots :
    /\ Failed(reqs[r])
    /\ ~IsShaped(reqs[r].forwarded[1])
    /\ reqs[r].forwarded[1].code = "22P02"
    => /\ reqs[r].sent =
            <<Response(400, MsgInvalidInput, "error", <<>>, "psql")>>
       /\ reqs[r].trail = <<"custom", "psql">>
       /\ reqs[r].unhandled = <<>>

C14_Witness ==
  \E r \in Slots :
    /\ Failed(reqs[r])
    /\ reqs[r].kind = "patchArticleById"
    /\ reqs[r].forwarded[1] = StoreError("22P02", NoMsg)
    /\ Answered(reqs[r], 400, MsgInvalidInput)
    /\ reqs[r].trail = <<"custom", "psql">>

\* C15: the stages see a failure in the order shaped-failure stage, store-code
\* stage, fallback; the first that recognises it writes the only response: a
\* failure with a status, a msg and code 22P02 is answered by the first stage
\* with its own status, and a failure neither stage recognises reaches the
\* fallback as it was forwarded, with no response from either stage.
C15_FirstMatchWins ==
  \A r \in Slots :
    Failed(reqs[r]) =>
      LET err == reqs[r].forwarded[1]
          trail == reqs[r].trail
      IN  /\ trail \in {<<"custom">>, <<"custom", "psql">>,
                         <<"custom", "psql", "fallback">>}
          /\ Len(reqs[r].sent) = 1
          /\ Answer(reqs[r]).by = trail[Len(trail)]
          /\ IsShaped(err) =>
               /\ trail = <<"custom">>
               /\ Answer(reqs[r]).status = err.status
               /\ Answer(reqs[r]).msg = err.msg
          /\ ~IsShaped(err) /\ err.code = "22P02" =>
               trail = <<"custom", "psql">>
          /\ ~IsShaped(err) /\ err.code # "22P02" =>
               /\ trail = <<"custom", "psql", "fallback">>
               /\ reqs[r].unhandled = <<err>>

\* a failure both stages would recognise is answered by the first
C15_Witness ==
  \E r \in Slots :
    /\ Failed(reqs[r])
    /\ IsShaped(reqs[r].forwarded[1])
    /\ reqs[r].forwarded[1].code = "22P02"
    /\ reqs[r].forwarded[1].status = 404
    /\ Answer(reqs[r]).by = "custom"
    /\ Answer(reqs[r]).status = 404

\* ------------------------------------------------------------------ C16
\* the request has forwarded the failure of a local check: the path
\* identifier's or a mutation's body check
C16_RejectedLocally(req) ==
  \E i \in 1..Len(req.forwarded) :
    req.forwarded[i] \in {Shaped(400, MsgIdNotNumber), Shaped(400, MsgMalformed)}

\* C16: a request that a local check has rejected (the path identifier's
\* check, a mutation's body check) has sent no query to the store, and sends
\* none afterwards.
C16_NoQueryWhenRejectedLocally ==
  \A r \in Slots : C16_RejectedLocally(reqs[r]) => reqs[r].queries = <<>>

\* ------------------------------------------------------------------ C17
C17_Stored(a) == Cardinality({c \in comments : c.article_id = a})

C17_Reads(req) ==
  req.kind \in {"getAllArticles", "getArticlesById", "getArticlesByIdChecked"}

\* the store step of slot r inserts a comment of article a
C17_Inserted(r, a) ==
  /\ Steps(r) /\ reqs[r].pc = "pending"
  /\ reqs[r].kind = "postCommentByArticleId"
  /\ reqs'[r].result.ok
  /\ int4in(reqs[r].id).val = a

\* the store step of slot r deletes a comment of article a
C17_Deleted(r, a) ==
  /\ Steps(r) /\ reqs[r].pc = "pending"
  /\ reqs[r].kind = "deleteCommentById"
  /\ reqs'[r].result.ok
  /\ \E c \in comments : c.comment_id = int4in(reqs[r].id).val /\ c.article_id = a

\* C17: the comment_count of every article in a 200 answer of GET /articles
\* and GET /articles/{id} is the number of comments of that article stored
\* when the store answered the request; that number grows by one with a
\* successful insert on the article, shrinks by one with a successful delete
\* of one of its comments, and no other step (a vote increment, a failed
\* request, a read) changes it.
C17_CountIsLive ==
  /\ [](\A r \in Slots :
          (Done(reqs[r]) /\ C17_Reads(reqs[r]) /\ reqs[r].result.ok) =>
            /\ Len(reqs[r].sent) = 1
            /\ Answer(reqs[r]).status = 200
            /\ Answer(reqs[r]).rows = reqs[r].result.rows)
  /\ [][\A r \in Slots :
          (Steps(r) /\ reqs[r].pc = "pending" /\ C17_Reads(reqs[r])
             /\ reqs'[r].result.ok) =>
            \A i \in 1..Len(reqs'[r].result.rows) :
              reqs'[r].result.rows[i].comment_count =
                C17_Stored(reqs'[r].result.rows[i].article_id)]_vars
  /\ [][\A a \in DOMAIN articles :
          C17_Stored(a)' =
            C17_Stored(a)
              + (IF \E r \in Slots : C17_Inserted(r, a) THEN 1 ELSE 0)
              - (IF \E r \in Slots : C17_Deleted(r, a) THEN 1 ELSE 0)]_vars

\* after a comment was added to the article that had none, its page shows one
C17_Witness ==
  \E r \in Slots :
    /\ Done(reqs[r]) /\ reqs[r].kind = "getArticlesById"
    /\ reqs[r].id = TokTwo
    /\ Answered(reqs[r], 200, NoMsg)
    /\ Answer(reqs[r]).rows[1].comment_count = 1
    /\ C17_Stored(2) = 1

\* ------------------------------------------------------------------ C18
\* the responses the handler itself has written
C18_Successes(req) == Len(SelectSeq(req.sent, LAMBDA rsp : rsp.by = "handler"))

\* C18: a request has at no time more than one outcome, a success response
\* of its handler or a failure its handler forwarded, and a finished request
\* has exactly one and has been sent exactly one response.
C18_OneOutcome ==
  \A r \in Slots :
    /\ C18_Successes(reqs[r]) + Len(reqs[r].forwarded) <= 1
    /\ Len(reqs[r].sent) <= 1
    /\ Done(reqs[r]) =>
         /\ C18_Successes(reqs[r]) + Len(reqs[r].forwarded) = 1
         /\ Len(reqs[r].sent) = 1
====
